---- MODULE Spec2Model ----
(***************************************************************************)
(* Request validation and normalisation layer of the RDS MySQL MCP server  *)
(* (server.py).  Every tool handler is one action: it takes an argument    *)
(* set, evaluates its checks in source order, builds the request mapping   *)
(* and either raises (rejected) or passes the mapping to the resource      *)
(* client (forwarded).                                                     *)
(*                                                                         *)
(* Python values:                                                          *)
(*   - a str is a sequence of characters; a character is a token such as   *)
(*     "a", "1", "-", "LF" (newline), "CJK" (a character of U+4E00-U+9FA5),*)
(*     "UDIGIT" (a non-ASCII decimal digit), "ULETTER" (a non-ASCII letter)*)
(*   - a value that may be None is a sequence of length 0 (None) or 1      *)
(*     (the value), so that None differs from the empty string.            *)
(***************************************************************************)
EXTENDS Integers, Sequences, FiniteSets, TLC

VARIABLES op, args, outcome, error, calls

vars == <<op, args, outcome, error, calls>>

----------------------------------------------------------------------------
(* Bounds of the input sets *)

\* fill lengths 0..SmallLen are tried besides the lengths around each limit
SmallLen == 1
\* how far past a documented limit the inputs go
Over == 1
\* largest node count tried by create_rds_mysql_instance
MaxCount == 2

----------------------------------------------------------------------------
(* Python values *)

None == <<>>

Some(v) == <<v>>

IsNone(o) == Len(o) = 0

Val(o) == o[1]

\* bool(x) of an optional str or list: None and the empty value are falsy
Truthy(o) == Len(o) = 1 /\ Len(o[1]) > 0

\* the string made of n copies of the character c
Rep(c, n) == [i \in 1..n |-> c]

\* the list of n distinct identifiers
Ids(n) == [i \in 1..n |-> <<"a", i>>]

\* the filter left out: every key is kept
DropNone_KeepAll(req) == req

\* {k: v for k, v in req.items() if v is not None}
DropNone(req) == [k \in {x \in DOMAIN req : ~IsNone(req[x])} |-> req[k]]

----------------------------------------------------------------------------
(* Character classes of the regular expressions (Python 3 str patterns) *)

AsciiUpper == {"A"}

AsciiLower == {"a"}

AsciiDigit == {"1"}

UnicodeDigit == {"UDIGIT"}

UnicodeLetter == {"ULETTER"}

Cjk == {"CJK"}

\* [!@#$%^&*()_+\-=,.&?|/]
SpecialChars == {"!", "@", "#", "$", "%", "^", "&", "*", "(", ")", "_", "+",
                 "-", "=", ",", ".", "?", "|", "/"}

\* \d
re_d(c) == c \in AsciiDigit \cup UnicodeDigit

\* \w
re_w(c) == c \in AsciiUpper \cup AsciiLower \cup AsciiDigit \cup {"_"}
                 \cup UnicodeLetter \cup UnicodeDigit \cup Cjk

\* $ after n consumed characters: the end of the string, or just before a
\* newline that ends the string
re_dollar(s, n) == n = Len(s) \/ (n = Len(s) - 1 /\ s[Len(s)] = "LF")

InstanceNameRestMax == 127

\* re.match(r'^[^\d-][\w\-\u4e00-\u9fa5]{0,127}$', instance_new_name)
instance_new_name_re(s) ==
    /\ Len(s) >= 1
    /\ ~re_d(s[1]) /\ s[1] # "-"
    /\ \E k \in 0..InstanceNameRestMax :
          /\ 1 + k <= Len(s)
          /\ \A i \in 2..(1 + k) : re_w(s[i]) \/ s[i] = "-" \/ s[i] \in Cjk
          /\ re_dollar(s, 1 + k)

----------------------------------------------------------------------------
(* Input sets *)

FirstChars == {"a", "1", "-", "!", "LF", "CJK", "UDIGIT", "ULETTER"}

Tails == {<<>>, <<"LF">>, <<"!">>, <<"-">>}

\* fill lengths for a field whose documented maximum length is max
FillLens(max) == (0..SmallLen) \cup ((max - 2)..(max - 1 + Over))

\* candidate names: empty, or a first character, a run of "a", and a tail
NameInputs(max) ==
    {<<>>} \cup {<<f>> \o Rep("a", n) \o t :
                    f \in FirstChars, n \in FillLens(max), t \in Tails}

ReqStrs == {<<>>, <<"a">>}

OptStrs == {None, Some(<<>>), Some(<<"a">>)}

----------------------------------------------------------------------------
(* Outcomes of a handler *)

\* raise ValueError(...): nothing was passed to the resource client
Raise(e) == [outcome |-> "rejected", error |-> e, calls |-> <<>>]

\* resp = rds_mysql_resource.<method>(req); return resp.to_dict()
Call(method, req) ==
    [outcome |-> "forwarded", error |-> "none",
     calls |-> << [method |-> method, req |-> req] >>]

\* the checks of a handler, in source order: the errors of those that fail
Check(failed, e) == IF failed THEN <<e>> ELSE <<>>

\* every check evaluated and the error of the last failing one raised
Handle_LastError(errors, method, req) ==
    IF errors # <<>> THEN Raise(errors[Len(errors)]) ELSE Call(method, req)

\* the first failing check raises; with none failing the request is sent
Handle(errors, method, req) ==
    IF errors # <<>> THEN Raise(Head(errors)) ELSE Call(method, req)

----------------------------------------------------------------------------
(* describe_db_instances *)

PageSizeMax == 1000

describe_db_instances_StrKeys ==
    {"instance_id", "instance_name", "instance_status", "db_engine_version",
     "create_time_start", "create_time_end", "zone_id", "charge_type",
     "instance_type", "node_spec", "project_name",
     "private_network_ip_address", "private_network_vpc_id", "storage_type"}

\* a tag filter element is a dict; only its key set matters to the handler
TagFilterLists ==
    {None, Some(<<>>), Some(<< {"Key", "Value"} >>),
     Some(<< {"Key"}, {"Value"} >>)}

PageSizes == {1, 10} \cup (PageSizeMax..(PageSizeMax + Over))

\* at most one of the optional string filters is supplied in an invocation
describe_db_instances_Args ==
    {[k \in describe_db_instances_StrKeys |-> IF k = s THEN v ELSE None]
       @@ [page_number |-> pn, page_size |-> ps, tag_filters |-> tf,
           kernel_version |-> kv] :
       s \in describe_db_instances_StrKeys \cup {"-"},
       v \in {Some(<<>>), Some(<<"a">>)},
       pn \in {1, 2}, ps \in PageSizes, tf \in TagFilterLists,
       kv \in {None, Some(<< <<"a">> >>)}}

describe_db_instances_Rules(a) ==
    Check(~IsNone(a.tag_filters)
            /\ \E i \in 1..Len(Val(a.tag_filters)) :
                  "Key" \notin Val(a.tag_filters)[i],
          "tag_filters_key")

describe_db_instances_req(a) ==
    DropNone([k \in describe_db_instances_StrKeys |-> a[k]]
             @@ [tag_filters |-> a.tag_filters,
                 page_number |-> Some(a.page_number),
                 page_size |-> Some(a.page_size),
                 kernel_version |-> a.kernel_version])

\* the request sent before the tag filters are checked
describe_db_instances_CallFirst(a) ==
    LET sent == Call("describe_db_instances", describe_db_instances_req(a))
    IN  IF describe_db_instances_Rules(a) # <<>>
        THEN [outcome |-> "rejected",
              error |-> Head(describe_db_instances_Rules(a)),
              calls |-> sent.calls]
        ELSE sent


describe_db_instances(a) ==
    Handle(describe_db_instances_Rules(a), "describe_db_instances",
           describe_db_instances_req(a))

----------------------------------------------------------------------------
(* describe_db_instance_detail *)

describe_db_instance_detail_Args == [instance_id : ReqStrs]

describe_db_instance_detail(a) ==
    Call("describe_db_instance_detail", [instance_id |-> Some(a.instance_id)])

----------------------------------------------------------------------------
(* describe_db_instance_engine_minor_versions *)

describe_db_instance_engine_minor_versions_Args ==
    [instance_ids : {Ids(n) : n \in 0..(SmallLen + 1)}]

describe_db_instance_engine_minor_versions(a) ==
    Call("describe_db_instance_engine_minor_versions",
         [instance_ids |-> Some(a.instance_ids)])

----------------------------------------------------------------------------
(* describe_db_accounts *)

describe_db_accounts_Args ==
    [instance_id : ReqStrs, account_name : OptStrs, page_number : {1, 2},
     page_size : PageSizes]

describe_db_accounts_req(a) ==
    LET req == [instance_id |-> Some(a.instance_id),
                page_number |-> Some(a.page_number),
                page_size |-> Some(a.page_size)]
    IN  IF ~IsNone(a.account_name)
        THEN req @@ [account_name |-> a.account_name]
        ELSE req

describe_db_accounts(a) ==
    Call("describe_db_accounts", describe_db_accounts_req(a))

----------------------------------------------------------------------------
(* describe_databases *)

describe_databases_Args ==
    [instance_id : ReqStrs, db_name : OptStrs, page_number : {1, 2},
     page_size : PageSizes]

describe_databases_req(a) ==
    LET req == [instance_id |-> Some(a.instance_id),
                page_number |-> Some(a.page_number),
                page_size |-> Some(a.page_size)]
    IN  IF ~IsNone(a.db_name) THEN req @@ [db_name |-> a.db_name] ELSE req

describe_databases(a) == Call("describe_databases", describe_databases_req(a))

----------------------------------------------------------------------------
(* describe_db_instance_parameters *)

describe_db_instance_parameters_Args ==
    [instance_id : ReqStrs, parameter_name : OptStrs, node_id : OptStrs]

describe_db_instance_parameters_req(a) ==
    DropNone([instance_id |-> Some(a.instance_id),
              parameter_name |-> a.parameter_name,
              node_id |-> a.node_id])

describe_db_instance_parameters(a) ==
    Call("describe_db_instance_parameters",
         describe_db_instance_parameters_req(a))

----------------------------------------------------------------------------
(* list_parameter_templates *)

LimitMin == 1

LimitMax == 100

OffsetMin == 0

list_parameter_templates_StrKeys ==
    {"template_category", "template_type_version", "template_source",
     "project_name", "template_name"}

list_parameter_templates_Args ==
    {[k \in list_parameter_templates_StrKeys |-> IF k = s THEN v ELSE None]
       @@ [template_type |-> tt, limit |-> l, offset |-> o] :
       s \in list_parameter_templates_StrKeys \cup {"-"},
       v \in {Some(<<>>), Some(<<"a">>)},
       tt \in {"Mysql", ""},
       l \in ((LimitMin - Over)..LimitMin) \cup {10}
               \cup (LimitMax..(LimitMax + Over)),
       o \in (OffsetMin - Over)..(OffsetMin + 1)}

list_parameter_templates_req(a) ==
    DropNone([k \in list_parameter_templates_StrKeys |-> a[k]]
             @@ [template_type |-> Some(a.template_type),
                 limit |-> Some(a.limit),
                 offset |-> Some(a.offset)])

\* the checks look the keys 'Limit' and 'Offset' up in req
list_parameter_templates_Rules(a) ==
    LET req == list_parameter_templates_req(a)
    IN  Check("Limit" \in DOMAIN req
                /\ ~(LimitMin <= Val(req["Limit"])
                       /\ Val(req["Limit"]) <= LimitMax),
              "limit_range")
        \o Check("Offset" \in DOMAIN req /\ Val(req["Offset"]) < OffsetMin,
                 "offset_range")

list_parameter_templates(a) ==
    Handle(list_parameter_templates_Rules(a), "list_parameter_templates",
           list_parameter_templates_req(a))

----------------------------------------------------------------------------
(* describe_parameter_template *)

describe_parameter_template_Args ==
    [template_id : ReqStrs, project_name : OptStrs]

describe_parameter_template_Rules(a) ==
    Check(Len(a.template_id) = 0, "template_id_required")

describe_parameter_template(a) ==
    Handle(describe_parameter_template_Rules(a), "describe_parameter_template",
           DropNone([template_id |-> Some(a.template_id),
                     project_name |-> a.project_name]))

----------------------------------------------------------------------------
(* modify_db_instance_name *)

InstanceNameMax == 128

modify_db_instance_name_Args ==
    [instance_id : ReqStrs, instance_new_name : NameInputs(InstanceNameMax)]

modify_db_instance_name_Rules(a) ==
    Check(Len(a.instance_id) = 0, "instance_id_required")
    \o Check(Len(a.instance_new_name) = 0, "instance_new_name_required")
    \o Check(~instance_new_name_re(a.instance_new_name), "instance_new_name_pattern")

modify_db_instance_name(a) ==
    Handle(modify_db_instance_name_Rules(a), "modify_db_instance_name",
           [instance_id |-> Some(a.instance_id),
            instance_new_name |-> Some(a.instance_new_name)])

----------------------------------------------------------------------------
(* modify_db_account_description *)

AccountDescMax == 256

\* optional descriptions: unset, empty, short, and around the limit max
DescInputs(max) ==
    {None, Some(<<>>)}
      \cup {Some(Rep("a", n)) : n \in (1..SmallLen) \cup (max..(max + Over))}

modify_db_account_description_Args ==
    [instance_id : ReqStrs, account_name : ReqStrs, host : {"%", "10.0.0.%"},
     account_desc : DescInputs(AccountDescMax)]

modify_db_account_description_Rules(a) ==
    Check(Len(a.instance_id) = 0, "instance_id_required")
    \o Check(Len(a.account_name) = 0, "account_name_required")
    \o Check(~IsNone(a.account_desc) /\ Len(Val(a.account_desc)) > AccountDescMax,
             "account_desc_length")

\* the description kept only when truthy ("if account_desc:")
modify_db_account_description_req_IfTruthy(a) ==
    LET req == [instance_id |-> Some(a.instance_id),
                account_name |-> Some(a.account_name),
                host |-> Some(a.host)]
    IN  IF Truthy(a.account_desc)
        THEN req @@ [account_desc |-> a.account_desc]
        ELSE req


modify_db_account_description_req(a) ==
    DropNone([instance_id |-> Some(a.instance_id),
              account_name |-> Some(a.account_name),
              host |-> Some(a.host),
              account_desc |-> a.account_desc])

modify_db_account_description(a) ==
    Handle(modify_db_account_description_Rules(a),
           "modify_db_account_description",
           modify_db_account_description_req(a))

----------------------------------------------------------------------------
(* create_rds_mysql_instance *)

Counts == (0 - 1)..MaxCount

create_rds_mysql_instance_Args ==
    [vpc_id : {<<"a">>}, subnet_id : {<<"a">>}, instance_name : OptStrs,
     db_engine_version : {"MySQL_8_0"},
     primary_zone : {<<"z", "a">>, <<"z", "b">>}, primary_spec : {"spec.p"},
     secondary_count : Counts,
     secondary_zone : {None, Some(<<>>), Some(<<"z", "b">>)},
     secondary_spec : {"spec.s"},
     read_only_count : Counts, read_only_zone : {<<"z", "r">>},
     read_only_spec : {"spec.r"},
     storage_space : {20}, storage_type : {"LocalSSD"},
     charge_type : {"PostPaid"}]

\* the operands swapped: zone = primary_zone or secondary_zone
secondary_node_zone_Swapped(a) ==
    IF Len(a.primary_zone) > 0 THEN a.primary_zone ELSE Val(a.secondary_zone)

\* zone = secondary_zone or primary_zone
secondary_node_zone(a) ==
    IF Truthy(a.secondary_zone) THEN Val(a.secondary_zone) ELSE a.primary_zone

node_info(a) ==
    << [node_type |-> "Primary", zone_id |-> a.primary_zone,
        node_spec |-> a.primary_spec] >>
    \o [i \in 1..a.secondary_count |->
          [node_type |-> "Secondary", zone_id |-> secondary_node_zone(a),
           node_spec |-> a.secondary_spec]]
    \o [i \in 1..a.read_only_count |->
          [node_type |-> "ReadOnly", zone_id |-> a.read_only_zone,
           node_spec |-> a.read_only_spec]]

create_rds_mysql_instance_data(a) ==
    LET data == [db_engine_version |-> Some(a.db_engine_version),
                 node_info |-> Some(node_info(a)),
                 storage_type |-> Some(a.storage_type),
                 storage_space |-> Some(a.storage_space),
                 vpc_id |-> Some(a.vpc_id),
                 subnet_id |-> Some(a.subnet_id),
                 charge_info |-> Some([charge_type |-> a.charge_type])]
    IN  IF Truthy(a.instance_name)
        THEN data @@ [instance_name |-> a.instance_name]
        ELSE data

create_rds_mysql_instance(a) ==
    Call("create_db_instance", create_rds_mysql_instance_data(a))

----------------------------------------------------------------------------
(* create_database *)

DbDescMax == 256

valid_charsets == {"utf8", "utf8mb4", "latin1", "ascii"}

DatabasePrivilegeLists ==
    {None, Some(<<>>),
     Some(<< [AccountName |-> "u", AccountPrivilege |-> "ReadOnly"] >>),
     Some(<< [AccountName |-> "u", AccountPrivilege |-> "Custom",
              AccountPrivilegeDetail |-> "SELECT"] >>),
     Some(<< [AccountName |-> "u", AccountPrivilege |-> "ReadOnly"],
             [AccountName |-> "v", AccountPrivilege |-> "Custom"] >>)}

create_database_Args ==
    [instance_id : ReqStrs, db_name : ReqStrs,
     character_set_name : {"utf8mb4", "ascii", "gbk"},
     database_privileges : DatabasePrivilegeLists,
     db_desc : DescInputs(DbDescMax)]

create_database_Rules(a) ==
    Check(Len(a.instance_id) = 0, "instance_id_required")
    \o Check(Len(a.db_name) = 0, "db_name_required")
    \o Check(a.character_set_name \notin valid_charsets, "character_set_name_enum")
    \o Check(~IsNone(a.db_desc) /\ Len(Val(a.db_desc)) > DbDescMax,
             "db_desc_length")

create_database_req(a) ==
    DropNone([instance_id |-> Some(a.instance_id),
              db_name |-> Some(a.db_name),
              character_set_name |-> Some(a.character_set_name),
              database_privileges |-> a.database_privileges,
              db_desc |-> a.db_desc])

create_database(a) ==
    Handle(create_database_Rules(a), "create_database", create_database_req(a))

----------------------------------------------------------------------------
(* create_allow_list *)

AllowListNameMax == 128

AllowListNameRestMax == 127

AllowListDescMax == 200

SecurityGroupIdsMax == 10

\* re.match(r'^[^\d-][\w\-\u4e00-\u9fa5]{0,127}$', allow_list_name)
allow_list_name_re(s) ==
    /\ Len(s) >= 1
    /\ ~re_d(s[1]) /\ s[1] # "-"
    /\ \E k \in 0..AllowListNameRestMax :
          /\ 1 + k <= Len(s)
          /\ \A i \in 2..(1 + k) : re_w(s[i]) \/ s[i] = "-" \/ s[i] \in Cjk
          /\ re_dollar(s, 1 + k)

valid_allow_list_types == {"IPv4"}

valid_categories == {"Ordinary", "Default"}

AllowList(n, d, t, al, sg, bi, c, ual, pn) ==
    [allow_list_name |-> n, allow_list_desc |-> d, allow_list_type |-> t,
     allow_list |-> al, security_group_ids |-> sg,
     security_group_bind_infos |-> bi, allow_list_category |-> c,
     user_allow_list |-> ual, project_name |-> pn]

\* every candidate name with the other arguments at their defaults, and a
\* few names with every combination of the other arguments
create_allow_list_Args ==
    {AllowList(n, None, "IPv4", None, None, None, "Ordinary", None, None) :
       n \in NameInputs(AllowListNameMax)}
    \cup
    {AllowList(n, d, t, al, sg, bi, c, ual, pn) :
       n \in {<<>>, <<"a">>},
       d \in DescInputs(AllowListDescMax),
       t \in {"IPv4", "IPv6"},
       al \in {None, Some(<<>>), Some(<<"i">>)},
       sg \in {None, Some(Ids(0))}
                \cup {Some(Ids(k)) :
                        k \in SecurityGroupIdsMax..(SecurityGroupIdsMax + Over)},
       bi \in {None, Some(<< [BindMode |-> "IngressDirectionIp",
                              SecurityGroupId |-> "sg"] >>)},
       c \in {"Ordinary", "Default", "Other"},
       ual \in {None, Some(<<>>), Some(<<"i">>)},
       pn \in {None, Some(<<"a">>)}}

\* the address lists compared by truth value ("if allow_list and
\* user_allow_list:") instead of with None
create_allow_list_Rules_Truthy(a) ==
    Check(Len(a.allow_list_name) = 0, "allow_list_name_required")
    \o Check(~allow_list_name_re(a.allow_list_name), "allow_list_name_pattern")
    \o Check(~IsNone(a.allow_list_desc)
               /\ Len(Val(a.allow_list_desc)) > AllowListDescMax,
             "allow_list_desc_length")
    \o Check(a.allow_list_type \notin valid_allow_list_types,
             "allow_list_type_enum")
    \o Check(a.allow_list_category \notin valid_categories,
             "allow_list_category_enum")
    \o Check(Truthy(a.allow_list) /\ Truthy(a.user_allow_list),
             "allow_list_exclusive")
    \o Check(~IsNone(a.security_group_ids)
               /\ ~IsNone(a.security_group_bind_infos),
             "security_group_exclusive")
    \o Check(~IsNone(a.security_group_ids)
               /\ Len(Val(a.security_group_ids)) > SecurityGroupIdsMax,
             "security_group_ids_count")


create_allow_list_Rules(a) ==
    Check(Len(a.allow_list_name) = 0, "allow_list_name_required")
    \o Check(~allow_list_name_re(a.allow_list_name), "allow_list_name_pattern")
    \o Check(~IsNone(a.allow_list_desc)
               /\ Len(Val(a.allow_list_desc)) > AllowListDescMax,
             "allow_list_desc_length")
    \o Check(a.allow_list_type \notin valid_allow_list_types,
             "allow_list_type_enum")
    \o Check(a.allow_list_category \notin valid_categories,
             "allow_list_category_enum")
    \o Check(~IsNone(a.allow_list) /\ ~IsNone(a.user_allow_list),
             "allow_list_exclusive")
    \o Check(~IsNone(a.security_group_ids)
               /\ ~IsNone(a.security_group_bind_infos),
             "security_group_exclusive")
    \o Check(~IsNone(a.security_group_ids)
               /\ Len(Val(a.security_group_ids)) > SecurityGroupIdsMax,
             "security_group_ids_count")

create_allow_list_req(a) ==
    DropNone([allow_list_name |-> Some(a.allow_list_name),
              allow_list_desc |-> a.allow_list_desc,
              allow_list_type |-> Some(a.allow_list_type),
              allow_list |-> a.allow_list,
              security_group_ids |-> a.security_group_ids,
              security_group_bind_infos |-> a.security_group_bind_infos,
              allow_list_category |-> Some(a.allow_list_category),
              user_allow_list |-> a.user_allow_list,
              project_name |-> a.project_name])

create_allow_list(a) ==
    Handle(create_allow_list_Rules(a), "create_allow_list",
           create_allow_list_req(a))

----------------------------------------------------------------------------
(* associate_allow_list *)

InstanceIdsMax == 200

AllowListIdsMax == 100

\* list lengths: the short ones and those around the two limits
ListLens ==
    (0..(SmallLen + 2)) \cup (AllowListIdsMax..(AllowListIdsMax + Over))
                        \cup (InstanceIdsMax..(InstanceIdsMax + Over))

associate_allow_list_Args ==
    [instance_ids : {Ids(n) : n \in ListLens},
     allow_list_ids : {Ids(n) : n \in ListLens}]

\* the instance count compared with >= instead of >
associate_allow_list_Rules_OffByOne(a) ==
    Check(Len(a.instance_ids) = 0, "instance_ids_required")
    \o Check(Len(a.allow_list_ids) = 0, "allow_list_ids_required")
    \o Check(Len(a.instance_ids) >= InstanceIdsMax, "instance_ids_count")
    \o Check(Len(a.allow_list_ids) > AllowListIdsMax, "allow_list_ids_count")
    \o Check(Len(a.instance_ids) > 1 /\ Len(a.allow_list_ids) > 1,
             "many_to_many")


associate_allow_list_Rules(a) ==
    Check(Len(a.instance_ids) = 0, "instance_ids_required")
    \o Check(Len(a.allow_list_ids) = 0, "allow_list_ids_required")
    \o Check(Len(a.instance_ids) > InstanceIdsMax, "instance_ids_count")
    \o Check(Len(a.allow_list_ids) > AllowListIdsMax, "allow_list_ids_count")
    \o Check(Len(a.instance_ids) > 1 /\ Len(a.allow_list_ids) > 1,
             "many_to_many")

associate_allow_list(a) ==
    Handle(associate_allow_list_Rules(a), "associate_allow_list",
           [instance_ids |-> Some(a.instance_ids),
            allow_list_ids |-> Some(a.allow_list_ids)])

----------------------------------------------------------------------------
(* create_db_account *)

AccountNameMax == 32

AccountNameMidMax == 30

PasswordMinLen == 8

PasswordMaxLen == 32

PasswordMinClasses == 3

CreateAccountDescMax == 256

\* re.match(r'^[a-zA-Z][a-zA-Z0-9_-]{0,30}[a-zA-Z0-9]$', account_name)
account_name_re(s) ==
    /\ Len(s) >= 1
    /\ s[1] \in AsciiLower \cup AsciiUpper
    /\ \E k \in 0..AccountNameMidMax :
          /\ 2 + k <= Len(s)
          /\ \A i \in 2..(1 + k) :
                s[i] \in AsciiLower \cup AsciiUpper \cup AsciiDigit \cup {"_", "-"}
          /\ s[2 + k] \in AsciiLower \cup AsciiUpper \cup AsciiDigit
          /\ re_dollar(s, 2 + k)

\* bool(re.search(r'[...]', account_password)) for a character class
re_search(class, s) == \E i \in 1..Len(s) : s[i] \in class

\* the digit search repeating the uppercase class
conditions_NoDigit(pw) ==
    << re_search(AsciiUpper, pw), re_search(AsciiLower, pw),
       re_search(AsciiUpper, pw), re_search(SpecialChars, pw) >>

\* conditions: uppercase, lowercase, digit, special character
conditions(pw) ==
    << re_search(AsciiUpper, pw), re_search(AsciiLower, pw),
       re_search(AsciiDigit, pw), re_search(SpecialChars, pw) >>

\* sum(conditions)
sum_conditions(pw) ==
    Cardinality({i \in 1..Len(conditions(pw)) : conditions(pw)[i]})

valid_account_types == {"Super", "Normal"}

PwOrder == <<"A", "a", "1", "!", "~">>

\* a password of length n made of exactly the characters of C
Pw(C, n) ==
    LET base == SelectSeq(PwOrder, LAMBDA c : c \in C)
    IN  base \o Rep(base[1], n - Len(base))

PasswordLens ==
    ((PasswordMinLen - Over)..PasswordMinLen)
      \cup (PasswordMaxLen..(PasswordMaxLen + Over))

PasswordInputs ==
    {<<>>} \cup {Pw(C, n) : C \in (SUBSET {"A", "a", "1", "!", "~"}) \ {{}},
                            n \in PasswordLens}

AccountPrivilegeLists ==
    {None,
     Some(<< [DBName |-> "d", AccountPrivilege |-> "Global",
              AccountPrivilegeDetail |-> "SELECT"] >>),
     Some(<< [DBName |-> "d", AccountPrivilege |-> "ReadOnly"],
             [DBName |-> "e", AccountPrivilege |-> "Custom"] >>)}

Account(i, n, pw, t, d, h, pr, dr, tc) ==
    [instance_id |-> i, account_name |-> n, account_password |-> pw,
     account_type |-> t, account_desc |-> d, host |-> h,
     account_privileges |-> pr, dry_run |-> dr,
     table_column_privileges |-> tc]

\* every candidate name, every candidate password, every combination of
\* passing and failing values of the checked arguments, and every
\* combination of the optional arguments, the rest being valid
create_db_account_Args ==
    {Account(<<"a">>, n, Pw({"A", "a", "1"}, PasswordMinLen), "Normal", None,
             "%", None, FALSE, None) : n \in NameInputs(AccountNameMax)}
    \cup
    {Account(<<"a">>, <<"a", "a">>, pw, "Normal", None, "%", None, FALSE, None) :
       pw \in PasswordInputs}
    \cup
    {Account(i, n, pw, t, d, h, None, FALSE, None) :
       i \in ReqStrs,
       n \in {<<>>, <<"a", "a">>, <<"1", "a">>},
       pw \in {<<>>, Pw({"A", "a", "1"}, PasswordMinLen - 1),
               Pw({"A", "a"}, PasswordMinLen),
               Pw({"A", "a", "1"}, PasswordMinLen)},
       t \in {"", "Super", "Normal", "Admin"},
       d \in DescInputs(CreateAccountDescMax),
       h \in {"%", "10.0.0.%"}}
    \cup
    {Account(<<"a">>, <<"a", "a">>, Pw({"A", "a", "1"}, PasswordMinLen), t, d,
             "%", pr, dr, tc) :
       t \in {"Super", "Normal"},
       d \in {None, Some(<<>>), Some(<<"a">>)},
       pr \in AccountPrivilegeLists,
       dr \in BOOLEAN,
       tc \in {None, Some(<< [DBName |-> "d"] >>)}}

\* the host check made for the wrong account type
create_db_account_Rules_WrongType(a) ==
    Check(Len(a.instance_id) = 0, "instance_id_required")
    \o Check(Len(a.account_name) = 0, "account_name_required")
    \o Check(Len(a.account_password) = 0, "account_password_required")
    \o Check(a.account_type = "", "account_type_required")
    \o Check(~account_name_re(a.account_name), "account_name_pattern")
    \o Check(~(PasswordMinLen <= Len(a.account_password)
                 /\ Len(a.account_password) <= PasswordMaxLen),
             "account_password_length")
    \o Check(sum_conditions(a.account_password) < PasswordMinClasses,
             "account_password_complexity")
    \o Check(a.account_type \notin valid_account_types, "account_type_enum")
    \o Check(a.account_type = "Normal" /\ a.host # "%", "super_host")
    \o Check(~IsNone(a.account_desc)
               /\ Len(Val(a.account_desc)) > CreateAccountDescMax,
             "account_desc_length")


create_db_account_Rules(a) ==
    Check(Len(a.instance_id) = 0, "instance_id_required")
    \o Check(Len(a.account_name) = 0, "account_name_required")
    \o Check(Len(a.account_password) = 0, "account_password_required")
    \o Check(a.account_type = "", "account_type_required")
    \o Check(~account_name_re(a.account_name), "account_name_pattern")
    \o Check(~(PasswordMinLen <= Len(a.account_password)
                 /\ Len(a.account_password) <= PasswordMaxLen),
             "account_password_length")
    \o Check(sum_conditions(a.account_password) < PasswordMinClasses,
             "account_password_complexity")
    \o Check(a.account_type \notin valid_account_types, "account_type_enum")
    \o Check(a.account_type = "Super" /\ a.host # "%", "super_host")
    \o Check(~IsNone(a.account_desc)
               /\ Len(Val(a.account_desc)) > CreateAccountDescMax,
             "account_desc_length")

create_db_account_req(a) ==
    DropNone([instance_id |-> Some(a.instance_id),
              account_name |-> Some(a.account_name),
              account_desc |-> a.account_desc,
              host |-> Some(a.host),
              account_password |-> Some(a.account_password),
              account_type |-> Some(a.account_type),
              account_privileges |-> a.account_privileges,
              dry_run |-> Some(a.dry_run),
              table_column_privileges |-> a.table_column_privileges])

create_db_account(a) ==
    Handle(create_db_account_Rules(a), "create_db_account",
           create_db_account_req(a))

----------------------------------------------------------------------------
(* describe_vpcs *)

VpcIdsMax == 100

TagKeysMax == 10

TagValuesMax == 3

VpcPageSizeMin == 1

VpcPageSizeMax == 100

MaxResultsMin == 1

MaxResultsMax == 100

\* a tag filter {key: [values]} with nk keys of nv values each
Tags(nk, nv) == [k \in 1..nk |-> Ids(nv)]

VpcTagFilters ==
    {None, Some(Tags(0, 0))}
      \cup {Some(Tags(1, nv)) : nv \in TagValuesMax..(TagValuesMax + Over)}
      \cup {Some(Tags(nk, 1)) : nk \in TagKeysMax..(TagKeysMax + Over)}

describe_vpcs_OptKeys ==
    {"vpc_name", "project_name", "next_token", "is_default", "vpc_owner_id",
     "page_number"}

\* a value of the type of the optional argument k
describe_vpcs_OptValue(k, str) ==
    CASE k = "is_default" -> Some(TRUE)
      [] k \in {"vpc_owner_id", "page_number"} -> Some(1)
      [] OTHER -> Some(str)

\* at most one of the unchecked optional arguments is supplied
describe_vpcs_Args ==
    {[k \in describe_vpcs_OptKeys |->
         IF k = s THEN describe_vpcs_OptValue(k, str) ELSE None]
       @@ [vpc_ids |-> ids, tag_filters |-> tf, page_size |-> ps,
           max_results |-> mr] :
       s \in describe_vpcs_OptKeys \cup {"-"},
       str \in {<<>>, <<"a">>},
       ids \in {None} \cup {Some(Ids(n)) :
                   n \in (0..(SmallLen + 1)) \cup (VpcIdsMax..(VpcIdsMax + Over))},
       tf \in VpcTagFilters,
       ps \in {None, Some(VpcPageSizeMin - 1), Some(VpcPageSizeMax),
               Some(VpcPageSizeMax + 1)},
       mr \in {None, Some(MaxResultsMin), Some(MaxResultsMax + 1)}}

describe_vpcs_Rules(a) ==
    Check(~IsNone(a.vpc_ids) /\ Len(Val(a.vpc_ids)) > VpcIdsMax, "vpc_ids_count")
    \o Check(~IsNone(a.tag_filters) /\ Len(Val(a.tag_filters)) > TagKeysMax,
             "tag_keys_count")
    \o Check(~IsNone(a.tag_filters)
               /\ \E k \in DOMAIN Val(a.tag_filters) :
                     Len(Val(a.tag_filters)[k]) > TagValuesMax,
             "tag_values_count")
    \o Check(~IsNone(a.page_size)
               /\ (Val(a.page_size) < VpcPageSizeMin
                     \/ Val(a.page_size) > VpcPageSizeMax),
             "page_size_range")
    \o Check(~IsNone(a.max_results)
               /\ (Val(a.max_results) < MaxResultsMin
                     \/ Val(a.max_results) > MaxResultsMax),
             "max_results_range")

\* f"VpcIds.{i}"
VpcIdsKey(i) == "VpcIds." \o ToString(i)

\* for i, vpc_id in enumerate(vpc_ids, 1): req[f"VpcIds.{i}"] = vpc_id
VpcIdsEntries(ids) ==
    [k \in {VpcIdsKey(i) : i \in 1..Len(ids)} |->
        Some(ids[CHOOSE i \in 1..Len(ids) : VpcIdsKey(i) = k])]

describe_vpcs_req(a) ==
    LET req == [Action |-> Some("DescribeVpcs"),
                Version |-> Some("2020-04-01"),
                VpcName |-> a.vpc_name,
                ProjectName |-> a.project_name,
                IsDefault |-> a.is_default,
                VpcOwnerId |-> a.vpc_owner_id,
                PageNumber |-> a.page_number,
                PageSize |-> a.page_size,
                NextToken |-> a.next_token,
                MaxResults |-> a.max_results]
    IN  DropNone(IF ~IsNone(a.vpc_ids) /\ Len(Val(a.vpc_ids)) > 0
                 THEN VpcIdsEntries(Val(a.vpc_ids)) @@ req
                 ELSE req)

describe_vpcs(a) ==
    Handle(describe_vpcs_Rules(a), "describe_vpcs", describe_vpcs_req(a))

----------------------------------------------------------------------------
(* The server *)

Init ==
    /\ op = "none"
    /\ args = <<>>
    /\ outcome = "none"
    /\ error = "none"
    /\ calls = <<>>

\* one tool invocation, start to end
Invoke(name, a, r) ==
    /\ op' = name
    /\ args' = a
    /\ outcome' = r.outcome
    /\ error' = r.error
    /\ calls' = r.calls

Tool_describe_db_instances ==
    /\ outcome = "none"
    /\ \E a \in describe_db_instances_Args :
           Invoke("describe_db_instances", a, describe_db_instances(a))

Tool_describe_db_instance_detail ==
    /\ outcome = "none"
    /\ \E a \in describe_db_instance_detail_Args :
           Invoke("describe_db_instance_detail", a, describe_db_instance_detail(a))

Tool_describe_db_instance_engine_minor_versions ==
    /\ outcome = "none"
    /\ \E a \in describe_db_instance_engine_minor_versions_Args :
           Invoke("describe_db_instance_engine_minor_versions", a,
                  describe_db_instance_engine_minor_versions(a))

Tool_describe_db_accounts ==
    /\ outcome = "none"
    /\ \E a \in describe_db_accounts_Args :
           Invoke("describe_db_accounts", a, describe_db_accounts(a))

Tool_describe_databases ==
    /\ outcome = "none"
    /\ \E a \in describe_databases_Args :
           Invoke("describe_databases", a, describe_databases(a))

Tool_describe_db_instance_parameters ==
    /\ outcome = "none"
    /\ \E a \in describe_db_instance_parameters_Args :
           Invoke("describe_db_instance_parameters", a,
                  describe_db_instance_parameters(a))

Tool_list_parameter_templates ==
    /\ outcome = "none"
    /\ \E a \in list_parameter_templates_Args :
           Invoke("list_parameter_templates", a, list_parameter_templates(a))

Tool_describe_parameter_template ==
    /\ outcome = "none"
    /\ \E a \in describe_parameter_template_Args :
           Invoke("describe_parameter_template", a, describe_parameter_template(a))

Tool_modify_db_instance_name ==
    /\ outcome = "none"
    /\ \E a \in modify_db_instance_name_Args :
           Invoke("modify_db_instance_name", a, modify_db_instance_name(a))

Tool_modify_db_account_description ==
    /\ outcome = "none"
    /\ \E a \in modify_db_account_description_Args :
           Invoke("modify_db_account_description", a, modify_db_account_description(a))

Tool_create_rds_mysql_instance ==
    /\ outcome = "none"
    /\ \E a \in create_rds_mysql_instance_Args :
           Invoke("create_rds_mysql_instance", a, create_rds_mysql_instance(a))

Tool_create_database ==
    /\ outcome = "none"
    /\ \E a \in create_database_Args :
           Invoke("create_database", a, create_database(a))

Tool_create_allow_list ==
    /\ outcome = "none"
    /\ \E a \in create_allow_list_Args :
           Invoke("create_allow_list", a, create_allow_list(a))

Tool_associate_allow_list ==
    /\ outcome = "none"
    /\ \E a \in associate_allow_list_Args :
           Invoke("associate_allow_list", a, associate_allow_list(a))

Tool_create_db_account ==
    /\ outcome = "none"
    /\ \E a \in create_db_account_Args :
           Invoke("create_db_account", a, create_db_account(a))

Tool_describe_vpcs ==
    /\ outcome = "none"
    /\ \E a \in describe_vpcs_Args :
           Invoke("describe_vpcs", a, describe_vpcs(a))

\* the invocation's objects are discarded; the server waits for the next one
NextInvocation ==
    /\ outcome # "none"
    /\ op' = "none"
    /\ args' = <<>>
    /\ outcome' = "none"
    /\ error' = "none"
    /\ calls' = <<>>

Next ==
    \/ Tool_describe_db_instances
    \/ Tool_describe_db_instance_detail
    \/ Tool_describe_db_instance_engine_minor_versions
    \/ Tool_describe_db_accounts
    \/ Tool_describe_databases
    \/ Tool_describe_db_instance_parameters
    \/ Tool_list_parameter_templates
    \/ Tool_describe_parameter_template
    \/ Tool_modify_db_instance_name
    \/ Tool_modify_db_account_description
    \/ Tool_create_rds_mysql_instance
    \/ Tool_create_database
    \/ Tool_create_allow_list
    \/ Tool_associate_allow_list
    \/ Tool_create_db_account
    \/ Tool_describe_vpcs
    \/ NextInvocation

Spec == Init /\ [][Next]_vars

----------------------------------------------------------------------------
(* Properties *)

Forwarded(o) == op = o /\ outcome = "forwarded"

Rejected(o) == op = o /\ outcome = "rejected"

\* the request of the invocation's call to the resource client
SentReq == calls[1].req

\* the checks of handler o that fail on the argument set a, in source order
FailedChecks(o, a) ==
    CASE o = "describe_db_instances" -> describe_db_instances_Rules(a)
      [] o = "list_parameter_templates" -> list_parameter_templates_Rules(a)
      [] o = "describe_parameter_template" -> describe_parameter_template_Rules(a)
      [] o = "modify_db_instance_name" -> modify_db_instance_name_Rules(a)
      [] o = "modify_db_account_description" ->
             modify_db_account_description_Rules(a)
      [] o = "create_database" -> create_database_Rules(a)
      [] o = "create_allow_list" -> create_allow_list_Rules(a)
      [] o = "associate_allow_list" -> associate_allow_list_Rules(a)
      [] o = "create_db_account" -> create_db_account_Rules(a)
      [] o = "describe_vpcs" -> describe_vpcs_Rules(a)
      [] OTHER -> <<>>

\* C1: in every handler, an invocation on which one of the handler's checks
\* fails ends rejected with no call to the resource client, and a call to
\* the resource client is made only when none of the handler's checks fails
\* (and then exactly once).
C1_NoCallUnlessAllRulesPass ==
    outcome # "none" =>
        /\ outcome = "rejected" => calls = <<>>
        /\ FailedChecks(op, args) # <<>> => outcome = "rejected" /\ calls = <<>>
        /\ calls # <<>> =>
              /\ FailedChecks(op, args) = <<>>
              /\ outcome = "forwarded"
              /\ Len(calls) = 1

C1_Witness ==
    /\ Rejected("create_db_account")
    /\ error = "account_password_complexity"
    /\ calls = <<>>

\* the parameters of handler o whose default is None
NoneDefaultArgs(o) ==
    CASE o = "describe_db_instances" ->
             describe_db_instances_StrKeys \cup {"tag_filters", "kernel_version"}
      [] o = "describe_db_accounts" -> {"account_name"}
      [] o = "describe_databases" -> {"db_name"}
      [] o = "describe_db_instance_parameters" -> {"parameter_name", "node_id"}
      [] o = "list_parameter_templates" -> list_parameter_templates_StrKeys
      [] o = "describe_parameter_template" -> {"project_name"}
      [] o = "modify_db_account_description" -> {"account_desc"}
      [] o = "create_rds_mysql_instance" -> {"instance_name"}
      [] o = "create_database" -> {"database_privileges", "db_desc"}
      [] o = "create_allow_list" ->
             {"allow_list_desc", "allow_list", "security_group_ids",
              "security_group_bind_infos", "user_allow_list", "project_name"}
      [] o = "create_db_account" ->
             {"account_desc", "account_privileges", "table_column_privileges"}
      [] o = "describe_vpcs" ->
             describe_vpcs_OptKeys \cup {"vpc_ids", "page_size", "max_results"}
      [] OTHER -> {}

\* the request keys that carry the argument k of handler o
KeysOf(o, k) ==
    IF o = "describe_vpcs"
    THEN CASE k = "vpc_name" -> {"VpcName"}
           [] k = "project_name" -> {"ProjectName"}
           [] k = "is_default" -> {"IsDefault"}
           [] k = "vpc_owner_id" -> {"VpcOwnerId"}
           [] k = "page_number" -> {"PageNumber"}
           [] k = "page_size" -> {"PageSize"}
           [] k = "next_token" -> {"NextToken"}
           [] k = "max_results" -> {"MaxResults"}
           [] k = "vpc_ids" -> {VpcIdsKey(i) : i \in 1..(VpcIdsMax + Over)}
    ELSE {k}

\* C2: in every forwarded request no key carries None, and no key of an
\* argument that was left unset (None) is present.
C2_UnsetOmitted ==
    outcome = "forwarded" =>
        /\ \A k \in DOMAIN SentReq : ~IsNone(SentReq[k])
        /\ \A k \in NoneDefaultArgs(op) :
              IsNone(args[k]) => KeysOf(op, k) \cap DOMAIN SentReq = {}

C2_Witness ==
    /\ Forwarded("create_allow_list")
    /\ IsNone(args.allow_list_desc)
    /\ ~IsNone(args.project_name)
    /\ "allow_list_desc" \notin DOMAIN SentReq
    /\ "project_name" \in DOMAIN SentReq

\* the optional str parameters of handler o
OptStrArgs(o) ==
    CASE o = "describe_db_instances" -> describe_db_instances_StrKeys
      [] o = "create_database" -> {"db_desc"}
      [] o = "create_allow_list" ->
             {"allow_list_desc", "allow_list", "user_allow_list", "project_name"}
      [] o = "create_db_account" -> {"account_desc"}
      [] o = "describe_vpcs" -> {"vpc_name", "project_name", "next_token"}
      [] OTHER -> NoneDefaultArgs(o)

\* the argument k was supplied as the empty string and the request carries
\* it with that value
EmptyKept(k) ==
    args[k] = Some(<<>>) =>
        \A key \in KeysOf(op, k) :
            key \in DOMAIN SentReq /\ SentReq[key] = Some(<<>>)

\* C3 as stated: in every operation, create instance's instance name
\* included, an optional string supplied as the empty string is in the
\* request with the empty value.
C3_EmptyStringKeptEverywhere ==
    outcome = "forwarded" => \A k \in OptStrArgs(op) : EmptyKept(k)

\* C3 (amended): in every operation but create instance an optional string
\* supplied as the empty string is in the request with the empty value, and
\* is absent only when unset; create instance carries the instance name
\* exactly when it is set and not empty.
C3_EmptyStringKept ==
    outcome = "forwarded" =>
        IF op = "create_rds_mysql_instance"
        THEN /\ "instance_name" \in DOMAIN SentReq <=> Truthy(args.instance_name)
             /\ "instance_name" \in DOMAIN SentReq =>
                    SentReq["instance_name"] = args.instance_name
        ELSE \A k \in OptStrArgs(op) :
                /\ EmptyKept(k)
                /\ \A key \in KeysOf(op, k) :
                      key \notin DOMAIN SentReq => IsNone(args[k])

C3_Witness ==
    /\ Forwarded("modify_db_account_description")
    /\ args.account_desc = Some(<<>>)
    /\ SentReq["account_desc"] = Some(<<>>)

\* C4: list_parameter_templates forwards exactly when limit is in 1..100
\* and offset >= 0, and rejects every other invocation without calling the
\* resource client.
C4_LimitOffsetChecked ==
    (op = "list_parameter_templates" /\ outcome # "none") =>
        IF args.limit \in 1..100 /\ args.offset >= 0
        THEN outcome = "forwarded"
        ELSE outcome = "rejected" /\ calls = <<>>

\* C5: every request describe_db_instances passes to the resource client
\* has page_size <= 1000.
C5_PageSizeAtMost1000 ==
    Forwarded("describe_db_instances") => Val(SentReq["page_size"]) <= 1000

\* the node descriptors create instance is specified to send: one Primary,
\* then s Secondary in zone sz, then r ReadOnly
ExpectedNodes(a, sz) ==
    LET nodes == Val(SentReq["node_info"])
        s == a.secondary_count
        r == a.read_only_count
    IN  /\ Len(nodes) = 1 + s + r
        /\ nodes[1] = [node_type |-> "Primary", zone_id |-> a.primary_zone,
                       node_spec |-> a.primary_spec]
        /\ \A i \in 2..(1 + s) :
              nodes[i] = [node_type |-> "Secondary", zone_id |-> sz,
                          node_spec |-> a.secondary_spec]
        /\ \A i \in (2 + s)..(1 + s + r) :
              nodes[i] = [node_type |-> "ReadOnly",
                          zone_id |-> a.read_only_zone,
                          node_spec |-> a.read_only_spec]
        /\ Cardinality({i \in 1..Len(nodes) : nodes[i].node_type = "Primary"}) = 1

CountsNonNegative == args.secondary_count >= 0 /\ args.read_only_count >= 0

C7_BindCardinality ==
    (op = "associate_allow_list" /\ outcome # "none") =>
        LET ni == Len(args.instance_ids)
            na == Len(args.allow_list_ids)
        IN  /\ outcome = "forwarded" <=>
                  (ni \in 1..200 /\ na \in 1..100 /\ (ni = 1 \/ na = 1))
            /\ outcome = "forwarded" =>
                  /\ SentReq["instance_ids"] = Some(args.instance_ids)
                  /\ SentReq["allow_list_ids"] = Some(args.allow_list_ids)
            /\ outcome = "rejected" => calls = <<>>

C7_Witness ==
    /\ Forwarded("associate_allow_list")
    /\ Len(args.instance_ids) = 200
    /\ Len(args.allow_list_ids) = 1

\* the number of the four character classes (uppercase, lowercase, digit,
\* special character) that the password pw has a character of
ClassCount(pw) ==
    Cardinality({c \in {"upper", "lower", "digit", "special"} :
        \E i \in 1..Len(pw) :
            \/ c = "upper" /\ pw[i] \in {"A"}
            \/ c = "lower" /\ pw[i] \in {"a"}
            \/ c = "digit" /\ pw[i] \in {"1"}
            \/ c = "special" /\ pw[i] \in SpecialChars})

\* the checks of create_db_account other than the two password checks pass
OtherAccountRulesPass ==
    \A i \in 1..Len(create_db_account_Rules(args)) :
        create_db_account_Rules(args)[i]
            \in {"account_password_length", "account_password_complexity"}

\* C8: with its other checks passing, create_db_account forwards exactly
\* when the password has 8..32 characters and characters of at least 3 of
\* the 4 classes.
C8_PasswordRule ==
    (op = "create_db_account" /\ outcome # "none" /\ OtherAccountRulesPass) =>
        (outcome = "forwarded" <=>
             /\ Len(args.account_password) \in 8..32
             /\ ClassCount(args.account_password) >= 3)

C8_Witness ==
    /\ Forwarded("create_db_account")
    /\ Len(args.account_password) = 32
    /\ ClassCount(args.account_password) = 3

\* the naming-pattern field of the invocation, with its documented maximum
NameField ==
    CASE op = "modify_db_instance_name" ->
             [value |-> args.instance_new_name, max |-> 128, min |-> <<"a">>]
      [] op = "create_allow_list" ->
             [value |-> args.allow_list_name, max |-> 128, min |-> <<"a">>]
      [] op = "create_db_account" ->
             [value |-> args.account_name, max |-> 32, min |-> <<"a", "a">>]

HasNameField ==
    op \in {"modify_db_instance_name", "create_allow_list", "create_db_account"}

\* the checks that fail are all checks of the name
OnlyNameRulesFail ==
    \A i \in 1..Len(FailedChecks(op, args)) :
        FailedChecks(op, args)[i]
            \in {"instance_new_name_required", "instance_new_name_pattern",
                 "allow_list_name_required", "allow_list_name_pattern",
                 "account_name_required", "account_name_pattern"}

\* C9: a name that starts with a digit or a hyphen, is empty, or is longer
\* than the documented maximum (128, account names 32) is rejected whatever
\* characters it has, and a minimal valid name is accepted.
C9_NameRejections ==
    (HasNameField /\ outcome # "none") =>
        LET v == NameField.value
        IN  /\ Len(v) = 0 => outcome = "rejected"
            /\ (Len(v) > 0 /\ v[1] \in {"1", "UDIGIT", "-"}) => outcome = "rejected"
            /\ Len(v) > NameField.max => outcome = "rejected"
            /\ (v = NameField.min /\ OnlyNameRulesFail) => outcome = "forwarded"

\* a letter, a digit, an underscore, a hyphen or a CJK character
NameChar(c) == c \in {"A", "a", "ULETTER", "1", "UDIGIT", "_", "-", "CJK"}

\* C10: every name forwarded by modify_db_instance_name and by
\* create_allow_list has 1..128 characters, each of them, the first one
\* included, a letter, a digit, an underscore, a hyphen or a CJK character.
C10_ForwardedNameMatches ==
    (outcome = "forwarded"
       /\ op \in {"modify_db_instance_name", "create_allow_list"}) =>
        LET v == NameField.value
        IN  /\ Len(v) \in 1..128
            /\ \A i \in 1..Len(v) : NameChar(v[i])

\* the checks of create_allow_list other than the two exclusion checks pass
OtherAllowListRulesPass ==
    \A i \in 1..Len(create_allow_list_Rules(args)) :
        create_allow_list_Rules(args)[i]
            \in {"allow_list_exclusive", "security_group_exclusive"}

BothAddressLists == ~IsNone(args.allow_list) /\ ~IsNone(args.user_allow_list)

BothSecurityGroups ==
    ~IsNone(args.security_group_ids) /\ ~IsNone(args.security_group_bind_infos)

\* C11: create_allow_list rejects every invocation that supplies both
\* allow_list and user_allow_list, or both security_group_ids and
\* security_group_bind_infos; with at most one of each pair supplied and the
\* other checks passing it forwards; no forwarded request has both keys of
\* a pair.
C11_MutualExclusion ==
    (op = "create_allow_list" /\ outcome # "none") =>
        /\ (BothAddressLists \/ BothSecurityGroups) =>
               outcome = "rejected" /\ calls = <<>>
        /\ (~BothAddressLists /\ ~BothSecurityGroups /\ OtherAllowListRulesPass)
               => outcome = "forwarded"
        /\ outcome = "forwarded" =>
               /\ ~({"allow_list", "user_allow_list"} \subseteq DOMAIN SentReq)
               /\ ~({"security_group_ids", "security_group_bind_infos"}
                      \subseteq DOMAIN SentReq)

C11_Witness ==
    /\ Rejected("create_allow_list")
    /\ error = "allow_list_exclusive"
    /\ args.allow_list = Some(<<>>)
    /\ ~IsNone(args.user_allow_list)

\* every element of the privilege list with a privilege type in types has
\* the privilege-detail field
DetailsPresent(privs, types) ==
    IsNone(privs) \/
        \A i \in 1..Len(Val(privs)) :
            Val(privs)[i].AccountPrivilege \in types =>
                "AccountPrivilegeDetail" \in DOMAIN Val(privs)[i]

\* C12: create_database and create_db_account forward no privilege list
\* with an element of type Custom (or Global, for create_db_account) that
\* has no privilege detail: such an invocation is rejected with no call.
C12_PrivilegeDetailRequired ==
    /\ (op = "create_database" /\ outcome # "none"
          /\ ~DetailsPresent(args.database_privileges, {"Custom"}))
         => outcome = "rejected" /\ calls = <<>>
    /\ (op = "create_db_account" /\ outcome # "none"
          /\ ~DetailsPresent(args.account_privileges, {"Custom", "Global"}))
         => outcome = "rejected" /\ calls = <<>>

\* C13: create_db_account rejects every invocation with account type Super
\* and a host other than "%"; a forwarded request of type Super has host
\* "%", and every forwarded request has account type Super or Normal.
C13_SuperHost ==
    (op = "create_db_account" /\ outcome # "none") =>
        /\ (args.account_type = "Super" /\ args.host # "%") =>
               outcome = "rejected" /\ calls = <<>>
        /\ outcome = "forwarded" =>
               /\ SentReq["account_type"] \in {Some("Super"), Some("Normal")}
               /\ SentReq["account_type"] = Some("Super") =>
                      SentReq["host"] = Some("%")

C13_Witness ==
    /\ Rejected("create_db_account")
    /\ error = "super_host"
    /\ args.account_type = "Super"
    /\ args.host # "%"

\* the order of the checks of create_db_account as the specification has it
CreateAccountOrder ==
    << "instance_id_required", "account_name_required",
       "account_password_required", "account_type_required",
       "account_name_pattern", "account_password_length",
       "account_password_complexity", "account_type_enum", "super_host",
       "account_desc_length" >>

\* the order of the checks of associate_allow_list
AssociateOrder ==
    << "instance_ids_required", "allow_list_ids_required",
       "instance_ids_count", "allow_list_ids_count", "many_to_many" >>

\* the checks that fail on the invocation's arguments, as a set
Violated == {FailedChecks(op, args)[i] : i \in 1..Len(FailedChecks(op, args))}

\* the earliest check of order that is in the set failed
Earliest(order, failed) ==
    order[CHOOSE i \in 1..Len(order) :
            order[i] \in failed /\ \A j \in 1..(i - 1) : order[j] \notin failed]

\* C14: an invocation that violates checks is rejected with the error of
\* the earliest violated check of the handler's order, whichever later
\* checks are violated too (create_db_account: required instance id, name,
\* password, type; name pattern; password length; password complexity; type
\* membership; Super host; description length), and a forwarded request
\* carries the argument values as they were given.
C14_FirstFailureInOrder ==
    outcome # "none" =>
        /\ Violated # {} =>
              /\ outcome = "rejected"
              /\ calls = <<>>
              /\ error = Head(FailedChecks(op, args))
        /\ (op = "create_db_account" /\ Violated # {}) =>
              error = Earliest(CreateAccountOrder, Violated)
        /\ (op = "associate_allow_list" /\ Violated # {}) =>
              error = Earliest(AssociateOrder, Violated)
        /\ Forwarded("create_db_account") =>
              /\ SentReq["instance_id"] = Some(args.instance_id)
              /\ SentReq["account_name"] = Some(args.account_name)
              /\ SentReq["account_password"] = Some(args.account_password)
              /\ SentReq["account_type"] = Some(args.account_type)
              /\ SentReq["host"] = Some(args.host)
        /\ Forwarded("associate_allow_list") =>
              /\ SentReq["instance_ids"] = Some(args.instance_ids)
              /\ SentReq["allow_list_ids"] = Some(args.allow_list_ids)

C14_Witness ==
    /\ Rejected("create_db_account")
    /\ error = "account_name_pattern"
    /\ {"account_name_pattern", "account_password_length", "account_type_enum",
        "account_desc_length"} \subseteq Violated

\* the request keys describe_vpcs uses for its other arguments
VpcKnownKeys ==
    {"Action", "Version", "VpcName", "ProjectName", "IsDefault", "VpcOwnerId",
     "PageNumber", "PageSize", "NextToken", "MaxResults"}
      \cup {VpcIdsKey(i) : i \in 1..(VpcIdsMax + Over)}

\* the identifiers, the name, the project and the pagination values that
\* were supplied are in the request, the k-th identifier under the key k
VpcArgsRepresented ==
    /\ ~IsNone(args.vpc_ids) =>
          \A k \in 1..Len(Val(args.vpc_ids)) :
              /\ VpcIdsKey(k) \in DOMAIN SentReq
              /\ SentReq[VpcIdsKey(k)] = Some(Val(args.vpc_ids)[k])
    /\ \A k \in {"vpc_name", "project_name", "page_number", "page_size",
                 "next_token", "max_results"} :
          ~IsNone(args[k]) =>
              \A key \in KeysOf(op, k) :
                  key \in DOMAIN SentReq /\ SentReq[key] = args[k]

\* a supplied tag filter with at least one key is in the request
VpcTagFilterRepresented ==
    Truthy(args.tag_filters) => DOMAIN SentReq \ VpcKnownKeys # {}

\* C15: every argument of describe_vpcs that is supplied and passes
\* validation is in the request: the k-th identifier under the indexed key
\* k, and a supplied name, project, pagination value and tag filter.
C15_VpcArgsInPayload ==
    Forwarded("describe_vpcs") =>
        VpcArgsRepresented /\ VpcTagFilterRepresented

====
